---- MODULE Spec2Model ----
(***************************************************************************)
(* A model of app.py, the PDF-to-CSV bank statement converter.             *)
(*                                                                         *)
(* Text is a sequence of one-character strings.  A transaction is a record *)
(* with the fields date, description and amount.  An amount is an exact    *)
(* decimal [m |-> mantissa, d |-> decimals], standing for m / 10^d, kept   *)
(* normalised (no trailing zero decimals), so that two amounts are equal   *)
(* exactly when float() of their texts are equal.                          *)
(***************************************************************************)
EXTENDS Integers, Sequences, FiniteSets, TLC

(***************************************************************************)
(* Characters and str methods                                              *)
(***************************************************************************)
Digit == {"0", "1", "2", "3", "4", "5", "6", "7", "8", "9"}

\* \s of a str pattern (the ASCII part)
Space == {" ", "\t", "\n", "\r", "\f"}

UpperCase == <<"A", "B", "C", "D", "E", "F", "G", "H", "I", "J", "K", "L", "M", "N", "O", "P", "Q", "R", "S", "T", "U", "V", "W", "X", "Y", "Z">>

LowerCase == <<"a", "b", "c", "d", "e", "f", "g", "h", "i", "j", "k", "l", "m", "n", "o", "p", "q", "r", "s", "t", "u", "v", "w", "x", "y", "z">>

DigitVal(c) ==
    CASE c = "0" -> 0 [] c = "1" -> 1 [] c = "2" -> 2 [] c = "3" -> 3
      [] c = "4" -> 4 [] c = "5" -> 5 [] c = "6" -> 6 [] c = "7" -> 7
      [] c = "8" -> 8 [] c = "9" -> 9

DigitChar(n) == <<"0", "1", "2", "3", "4", "5", "6", "7", "8", "9">>[n + 1]

\* str.lower() on one character
LowerChar(c) ==
    IF \E k \in 1..26 : UpperCase[k] = c
    THEN LowerCase[CHOOSE k \in 1..26 : UpperCase[k] = c]
    ELSE c

\* str.lower()
Lower(s) == [k \in 1..Len(s) |-> LowerChar(s[k])]

\* sub in s
Contains(s, sub) ==
    \E k \in 1..(Len(s) - Len(sub) + 1) : SubSeq(s, k, k + Len(sub) - 1) = sub

\* The text with the characters of set cs removed: str.replace(c, "")
RECURSIVE Remove(_, _)
Remove(s, cs) ==
    IF s = <<>> THEN <<>>
    ELSE IF Head(s) \in cs THEN Remove(Tail(s), cs)
    ELSE <<Head(s)>> \o Remove(Tail(s), cs)

\* str.strip(): leading and trailing whitespace removed
RECURSIVE LStrip(_)
LStrip(s) == IF s # <<>> /\ Head(s) \in Space THEN LStrip(Tail(s)) ELSE s

RECURSIVE RStrip(_)
RStrip(s) ==
    IF s # <<>> /\ s[Len(s)] \in Space THEN RStrip(SubSeq(s, 1, Len(s) - 1)) ELSE s

Strip(s) == RStrip(LStrip(s))

\* re.sub(r'\s+', ' ', line): every run of whitespace becomes one blank
RECURSIVE CollapseSpaces(_)
CollapseSpaces(s) ==
    IF s = <<>> THEN <<>>
    ELSE IF Head(s) \in Space
         THEN <<" ">> \o CollapseSpaces(LStrip(s))
         ELSE <<Head(s)>> \o CollapseSpaces(Tail(s))

\* str.split(sep) for a one-character separator
RECURSIVE Split(_, _)
Split(s, sep) ==
    IF \E k \in 1..Len(s) : s[k] = sep
    THEN LET k == CHOOSE j \in 1..Len(s) : s[j] = sep /\ \A h \in 1..(j - 1) : s[h] # sep
         IN  <<SubSeq(s, 1, k - 1)>> \o Split(SubSeq(s, k + 1, Len(s)), sep)
    ELSE <<s>>

(***************************************************************************)
(* Regular expressions, matched as the re module matches them: by          *)
(* backtracking, the alternatives tried in priority order, the first       *)
(* complete match winning.  A pattern is a sequence of nodes: a character  *)
(* class with a repetition, or the opening or closing of a group.          *)
(***************************************************************************)
Class(cs) == [neg |-> FALSE, set |-> cs]

\* . : any character but a newline
Dot == [neg |-> TRUE, set |-> {"\n"}]

InClass(c, cls) == IF cls.neg THEN c \notin cls.set ELSE c \in cls.set

\* cls{min,max}
Rep(cls, min, max) ==
    [t |-> "rep", cls |-> cls, min |-> min, bounded |-> TRUE, max |-> max, greedy |-> TRUE]

\* cls+
Plus(cls) ==
    [t |-> "rep", cls |-> cls, min |-> 1, bounded |-> FALSE, max |-> 0, greedy |-> TRUE]

\* cls*
Star(cls) ==
    [t |-> "rep", cls |-> cls, min |-> 0, bounded |-> FALSE, max |-> 0, greedy |-> TRUE]

\* cls+?
LazyPlus(cls) ==
    [t |-> "rep", cls |-> cls, min |-> 1, bounded |-> FALSE, max |-> 0, greedy |-> FALSE]

\* ( of group g; opt: the group is followed by ?; close: the index of its )
Open(g, opt, close) == [t |-> "open", g |-> g, opt |-> opt, close |-> close]

\* ) of group g
Close(g) == [t |-> "close", g |-> g]

NoMatch == [ok |-> FALSE]

\* A group that took no part in the match: match.group(g) is None
Unset == <<0, 0>>

\* The number of characters of s from position i on that are in cls, at most lim
RECURSIVE RunLength(_, _, _, _)
RunLength(s, i, cls, lim) ==
    IF lim = 0 \/ i > Len(s) \/ ~InClass(s[i], cls) THEN 0
    ELSE 1 + RunLength(s, i + 1, cls, lim - 1)

\* The match of the nodes k.. of pat at position i of s, or NoMatch.
\* TryCounts tries the repetition counts c, c + step, ... up to last.
RECURSIVE MatchFrom(_, _, _, _, _), TryCounts(_, _, _, _, _, _, _, _)
MatchFrom(pat, k, s, i, caps) ==
    IF k > Len(pat) THEN [ok |-> TRUE, end |-> i, caps |-> caps]
    ELSE LET n == pat[k] IN
      CASE n.t = "open" ->
             LET r == MatchFrom(pat, k + 1, s, i, [caps EXCEPT ![n.g] = <<i, 0>>])
             IN  IF r.ok \/ ~n.opt THEN r
                 ELSE MatchFrom(pat, n.close + 1, s, i, caps)
        [] n.t = "close" ->
             MatchFrom(pat, k + 1, s, i, [caps EXCEPT ![n.g] = <<caps[n.g][1], i>>])
        [] n.t = "rep" ->
             LET run == RunLength(s, i, n.cls, IF n.bounded THEN n.max ELSE Len(s))
             IN  IF run < n.min THEN NoMatch
                 ELSE IF n.greedy
                      THEN TryCounts(pat, k, s, i, caps, run, -1, n.min)
                      ELSE TryCounts(pat, k, s, i, caps, n.min, 1, run)

TryCounts(pat, k, s, i, caps, c, step, last) ==
    LET r == MatchFrom(pat, k + 1, s, i + c, caps)
    IN  IF r.ok \/ c = last THEN r
        ELSE TryCounts(pat, k, s, i, caps, c + step, step, last)

\* pattern.search(s): the match at the leftmost position that has one
RECURSIVE SearchFrom(_, _, _, _)
SearchFrom(pat, ngroups, s, p) ==
    IF p > Len(s) + 1 THEN NoMatch
    ELSE LET r == MatchFrom(pat, 1, s, p, [g \in 1..ngroups |-> Unset])
         IN  IF r.ok THEN r ELSE SearchFrom(pat, ngroups, s, p + 1)

Search(pat, ngroups, s) == SearchFrom(pat, ngroups, s, 1)

\* match.group(g), for a group that took part
Group(s, m, g) == SubSeq(s, m.caps[g][1], m.caps[g][2] - 1)

(***************************************************************************)
(* parse_absa_pdf                                                          *)
(***************************************************************************)
NumChars == Digit \cup Space \cup {",", "."}

\* The pattern with its fourth group made lazy: ([\d\s,.-]+?)
patternLazyDebit ==
    << Open(1, FALSE, 7), Rep(Class(Digit), 1, 2), Rep(Class({"/"}), 1, 1),
       Rep(Class(Digit), 1, 2), Rep(Class({"/"}), 1, 1), Rep(Class(Digit), 4, 4),
       Close(1), Plus(Class(Space)),
       Open(2, FALSE, 11), LazyPlus(Dot), Close(2), Plus(Class(Space)),
       Open(3, TRUE, 16), Plus(Class(NumChars)), Plus(Class(Space)), Close(3),
       Open(4, FALSE, 19), LazyPlus(Class(NumChars \cup {"-"})), Close(4),
       Star(Class(Space)),
       Open(5, TRUE, 23), Star(Class(NumChars)), Close(5),
       Open(6, TRUE, 27), Plus(Class(NumChars)), Star(Class(Space)), Close(6) >>

\* (\d{1,2}/\d{1,2}/\d{4})\s+(.+?)\s+([\d\s,.]+\s+)?([\d\s,.-]+)\s*
\* (?P<credit>[\d\s,.]*)?([\d\s,.]+\s*)?
pattern ==
    << Open(1, FALSE, 7), Rep(Class(Digit), 1, 2), Rep(Class({"/"}), 1, 1),
       Rep(Class(Digit), 1, 2), Rep(Class({"/"}), 1, 1), Rep(Class(Digit), 4, 4),
       Close(1), Plus(Class(Space)),
       Open(2, FALSE, 11), LazyPlus(Dot), Close(2), Plus(Class(Space)),
       Open(3, TRUE, 16), Plus(Class(NumChars)), Plus(Class(Space)), Close(3),
       Open(4, FALSE, 19), Plus(Class(NumChars \cup {"-"})), Close(4),
       Star(Class(Space)),
       Open(5, TRUE, 23), Star(Class(NumChars)), Close(5),
       Open(6, TRUE, 27), Plus(Class(NumChars)), Star(Class(Space)), Close(6) >>

\* The number of groups of pattern; credit is the fifth
NGroups == Len(SelectSeq(pattern, LAMBDA n : n.t = "open"))

CreditGroup == Len(SelectSeq(SubSeq(pattern, 1, 21), LAMBDA n : n.t = "open"))

\* The lines parse_absa_pdf skips before matching
IsHeaderLine(line) ==
    \/ Contains(Lower(line), <<"s", "t", "a", "t", "e", "m", "e", "n", "t", " ", "n", "o">>)
    \/ Contains(Lower(line), <<"t", "r", "a", "n", "s", "a", "c", "t", "i", "o", "n", " ", "d", "e", "s", "c", "r", "i", "p", "t", "i", "o", "n">>)
    \/ Contains(Lower(line), <<"p", "a", "g", "e">>)

\* The value of a text of decimal digits
RECURSIVE DigitsValue(_)
DigitsValue(s) ==
    IF s = <<>> THEN 0
    ELSE 10 * DigitsValue(SubSeq(s, 1, Len(s) - 1)) + DigitVal(s[Len(s)])

\* A decimal without trailing zero decimals
RECURSIVE Normalised(_)
Normalised(a) ==
    IF a.d > 0 /\ a.m % 10 = 0 THEN Normalised([m |-> a.m \div 10, d |-> a.d - 1])
    ELSE a

\* float(s) for a text of the characters a numeric group can hold: a value for
\* digits with at most one point among them, ValueError otherwise
ToFloat(s) ==
    LET t    == Strip(s)
        dots == SelectSeq(t, LAMBDA c : c = ".")
        digs == SelectSeq(t, LAMBDA c : c \in Digit)
    IN  IF /\ \A k \in 1..Len(t) : t[k] \in Digit \cup {"."}
           /\ Len(dots) <= 1
           /\ Len(digs) >= 1
        THEN LET p == IF dots = <<>> THEN Len(t) + 1
                      ELSE 1 + CHOOSE k \in 1..Len(t) : t[k] = "."
             IN  [ok |-> TRUE,
                  val |-> Normalised([m |-> DigitsValue(digs), d |-> Len(t) + 1 - p])]
        ELSE [ok |-> FALSE]

\* abs(x), the minus sign forgotten
AbsOnly(a) == [m |-> IF a.m < 0 THEN 0 - a.m ELSE a.m, d |-> a.d]

\* -abs(x)
NegAbs(a) == [m |-> IF a.m < 0 THEN a.m ELSE 0 - a.m, d |-> a.d]

\* Whether day/month/year is a day of the calendar
IsLeapYear(y) == y % 4 = 0 /\ (y % 100 # 0 \/ y % 400 = 0)

DaysInMonth(y, mo) ==
    IF mo = 2 THEN (IF IsLeapYear(y) THEN 29 ELSE 28)
    ELSE IF mo \in {4, 6, 9, 11} THEN 30 ELSE 31

\* pd.to_datetime(s, format="%d/%m/%Y") for a text that matched group 1:
\* a day of the calendar, ValueError otherwise
ToDatetime(s) ==
    LET parts == Split(s, "/")
        dd    == DigitsValue(parts[1])
        mo    == DigitsValue(parts[2])
        yy    == DigitsValue(parts[3])
    IN  IF mo \in 1..12 /\ yy >= 1 /\ dd >= 1 /\ dd <= DaysInMonth(yy, mo)
        THEN [ok |-> TRUE, day |-> dd, month |-> mo, year |-> yy]
        ELSE [ok |-> FALSE]

\* n written with w digits, padded with zeros
RECURSIVE ZeroPad(_, _)
ZeroPad(n, w) ==
    IF w = 0 THEN <<>> ELSE ZeroPad(n \div 10, w - 1) \o <<DigitChar(n % 10)>>

\* strftime("%Y-%d-%m"): the day and the month exchanged
StrftimeDayFirst(t) ==
    ZeroPad(t.year, 4) \o <<"-">> \o ZeroPad(t.day, 2) \o <<"-">> \o ZeroPad(t.month, 2)

\* Timestamp.strftime("%Y-%m-%d")
Strftime(t) ==
    ZeroPad(t.year, 4) \o <<"-">> \o ZeroPad(t.month, 2) \o <<"-">> \o ZeroPad(t.day, 2)

\* The exceptions the loop of parse_absa_pdf catches, skipping the line
CaughtInParseLoop == {"ValueError", "IndexError"}

\* The body of the loop for one line: the records it appends (one or none) and
\* the exception it raises ("" for none), before the except clause
LineAttempt(rawline) ==
    IF IsHeaderLine(rawline) THEN [exc |-> "", recs |-> <<>>]
    ELSE
      LET line  == Strip(CollapseSpaces(rawline))
          match == Search(pattern, NGroups, line)
      IN  IF ~match.ok THEN [exc |-> "", recs |-> <<>>]
          ELSE
            LET date_str    == Strip(Group(line, match, 1))
                description == Strip(Group(line, match, 2))
                debit_set   == match.caps[4] # Unset
                debit_str   == Group(line, match, 4)
                credit_set  == match.caps[CreditGroup] # Unset
                credit_str  == Group(line, match, CreditGroup)
                useCredit   == credit_set /\ credit_str # <<>> /\ Strip(credit_str) # <<>>
                useDebit    == debit_set /\ debit_str # <<>> /\ Strip(debit_str) # <<>>
                credit      == ToFloat(Remove(credit_str, {" ", ","}))
                debit       == ToFloat(Remove(debit_str, {" ", ",", "-"}))
                when        == ToDatetime(date_str)
            IN  IF useCredit
                THEN IF credit.ok /\ when.ok
                     THEN [exc |-> "",
                           recs |-> << [date |-> Strftime(when), description |-> description,
                                        amount |-> credit.val] >>]
                     ELSE [exc |-> "ValueError", recs |-> <<>>]
                ELSE IF useDebit
                THEN IF debit.ok /\ when.ok
                     THEN [exc |-> "",
                           recs |-> << [date |-> Strftime(when), description |-> description,
                                        amount |-> NegAbs(debit.val)] >>]
                     ELSE [exc |-> "ValueError", recs |-> <<>>]
                ELSE [exc |-> "", recs |-> <<>>]

\* The loop over the lines: the transactions in the order of the lines, or the
\* exception that left the loop
RECURSIVE ParseLines(_)
ParseLines(lines) ==
    IF lines = <<>> THEN [raised |-> "", transactions |-> <<>>]
    ELSE LET a == LineAttempt(Head(lines))
         IN  IF a.exc # "" /\ a.exc \notin CaughtInParseLoop
             THEN [raised |-> a.exc, transactions |-> <<>>]
             ELSE LET rest == ParseLines(Tail(lines))
                  IN  IF rest.raised # "" THEN rest
                      ELSE [raised |-> "", transactions |-> a.recs \o rest.transactions]

parse_absa_pdf(pdf_text_arg) == ParseLines(Split(pdf_text_arg, "\n"))

(***************************************************************************)
(* process_with_ai                                                         *)
(***************************************************************************)
\* One answer of the generateContent endpoint to requests.post:
\*   net       "error": requests.post raises a RequestException
\*   status    the HTTP status, which raise_for_status() inspects
\*   body      whether response.json() can decode the body
\*   envelope  the decoded body: "null", "no_candidates", "no_content" (the first
\*             candidate has no content), "no_parts" (a content without parts), "ok"
\*   text      whether json.loads can decode the text of the first part
\*   payload   the decoded text
Response(net, status, body, envelope, text, payload) ==
    [net |-> net, status |-> status, body |-> body, envelope |-> envelope,
     text |-> text, payload |-> payload]

\* process_with_ai that posts the request a second time when the first fails
process_with_ai_retrying(has_key, resp) ==
    IF ~has_key
    THEN [raised |-> "KeyError", calls |-> 0, transactions |-> <<>>, notice |-> ""]
    ELSE IF resp.net = "error" \/ resp.status \notin 200..299
    THEN [raised |-> "", calls |-> 2, transactions |-> <<>>, notice |-> "error"]
    ELSE IF resp.body = "json" /\ resp.envelope = "ok" /\ resp.text = "json"
    THEN [raised |-> "", calls |-> 1, transactions |-> resp.payload, notice |-> "success"]
    ELSE [raised |-> "", calls |-> 1, transactions |-> <<>>, notice |-> "error"]

\* process_with_ai: what it raises, the requests it posts, what it returns and
\* the notice it shows.  has_key: st.secrets holds the API key (read before the
\* try block, so the KeyError of a missing key leaves the function).
process_with_ai(has_key, resp) ==
    IF ~has_key
    THEN [raised |-> "KeyError", calls |-> 0, transactions |-> <<>>, notice |-> ""]
    ELSE IF resp.net = "error"
    THEN [raised |-> "", calls |-> 1, transactions |-> <<>>, notice |-> "error"]
    ELSE IF resp.status \notin 200..299
    THEN [raised |-> "", calls |-> 1, transactions |-> <<>>, notice |-> "error"]
    ELSE IF resp.body # "json"
    THEN [raised |-> "", calls |-> 1, transactions |-> <<>>, notice |-> "error"]
    ELSE IF resp.envelope \in {"null", "no_candidates", "no_content"}
    THEN [raised |-> "", calls |-> 1, transactions |-> <<>>, notice |-> "error"]
    ELSE IF resp.envelope = "no_parts"
    THEN [raised |-> "", calls |-> 1, transactions |-> <<>>, notice |-> "error"]
    ELSE IF resp.text # "json"
    THEN [raised |-> "", calls |-> 1, transactions |-> <<>>, notice |-> "error"]
    ELSE [raised |-> "", calls |-> 1, transactions |-> resp.payload, notice |-> "success"]

\* Why an answer yields no transactions ("" when it yields its payload)
ResponseFailure(resp) ==
    IF resp.net = "error" THEN "transport"
    ELSE IF resp.status \notin 200..299 THEN "http"
    ELSE IF resp.body # "json" THEN "malformed_json"
    ELSE IF resp.envelope # "ok" THEN "empty_envelope"
    ELSE IF resp.text # "json" THEN "malformed_json"
    ELSE ""

(***************************************************************************)
(* main                                                                    *)
(***************************************************************************)
\* The route that tests the file name as it is written
RouteCaseSensitive(name) ==
    IF Contains(name, <<"a", "b", "s", "a">>) THEN "GRAMMAR" ELSE "MODEL"

\* if "absa" in uploaded_file.name.lower()
Route(name) ==
    IF Contains(Lower(name), <<"a", "b", "s", "a">>) THEN "GRAMMAR" ELSE "MODEL"

\* An extend that skips the records already collected
ExtendDistinct(all, new) ==
    all \o SelectSeq(new, LAMBDA r : \A k \in 1..Len(all) : all[k] # r)

\* all_transactions.extend(transactions)
Extend(all, new) == all \o new

\* An except clause that ends the loop
BreakAfterError(i, n) == n + 1

\* The file the loop goes on with after the except clause of file i of n
NextAfterError(i, n) == i + 1

\* A cell of the DataFrame: the field, or NaN for a record without it
Cell(r, f) == IF f \in DOMAIN r THEN r[f] ELSE [nan |-> TRUE]

\* pd.DataFrame(all_transactions, columns=[...]).to_csv(index=False), offered
\* as bank_transactions.csv
ToCsv(all) ==
    [file_name |-> "bank_transactions.csv",
     header |-> <<"date", "description", "amount">>,
     rows |-> [k \in 1..Len(all) |->
                 <<Cell(all[k], "date"), Cell(all[k], "description"), Cell(all[k], "amount")>>]]

NoOutput == [file_name |-> "", header |-> <<>>, rows |-> <<>>]

\* An end of the conversion that warns only when no file failed
FinishQuiet(all, shown) ==
    IF all # <<>>
    THEN [output |-> ToCsv(all), notice |-> "success"]
    ELSE IF \E k \in 1..Len(shown) : shown[k].level = "error"
    THEN [output |-> NoOutput, notice |-> ""]
    ELSE [output |-> NoOutput, notice |-> "warning"]

\* if all_transactions: the table and the download; else: the warning
Finish(all, shown) ==
    IF all # <<>>
    THEN [output |-> ToCsv(all), notice |-> "success"]
    ELSE [output |-> NoOutput, notice |-> "warning"]

(***************************************************************************)
(* Inputs                                                                  *)
(***************************************************************************)
\* The most files in one upload
MaxFiles == 2

\* The most numeric tokens after the description of a statement line
MaxTokens == 2

FileNames == { <<"a", "b", "s", "a", ".", "p", "d", "f">>, <<"M", "y", "_", "A", "B", "S", "A", ".", "P", "D", "F">>, <<"f", "n", "b", ".", "p", "d", "f">>, <<"a", "b", "s", "_", "a", ".", "p", "d", "f">> }

\* The sequences over S of length lo..hi
SeqsOf(S, lo, hi) == UNION { [1..n -> S] : n \in lo..hi }

\* Page texts of uploaded files, as fitz extracts them
SampleTexts ==
    { <<"S", "t", "a", "t", "e", "m", "e", "n", "t", " ", "N", "o", " ", "1", "2", "\n", "2", "9", "/", "0", "4", "/", "2", "0", "2", "1", " ", "I", "b", "a", "n", "k", " ", "P", "a", "y", "m", "e", "n", "t", " ", "T", "o", " ", "S", "e", "t", "t", "l", "e", "m", "e", "n", "t", " ", " ", "1", "5", "0", ".", "0", "0", " ", " ">>,
      <<"A", "b", "s", "a", " ", "B", "a", "n", "k", "\n", "3", "2", "/", "1", "3", "/", "2", "0", "2", "1", " ", "F", "e", "e", " ", "1", "0", ".", "0", "0">>,
      <<"1", "/", "1", "/", "2", "0", "2", "1", " ", "F", "e", "e", " ", "0", ".", "0", "0", " ", "2", "5", "0", "0", ".", "0", "0", "\n", "1", "5", "/", "0", "3", "/", "2", "0", "2", "1", " ", "S", "a", "l", "a", "r", "y", " ", "1", "0", "0", ".", "0", "0">> }

\* Entries of a decoded answer: complete, without amount, with a date that is no
\* date, complete
EntryCredit ==
    [date |-> <<"2", "0", "2", "1", "-", "0", "4", "-", "2", "9">>, description |-> <<"Y", "o", "c", "o">>, amount |-> [m |-> 2500, d |-> 0]]

EntryNoAmount == [date |-> <<"2", "0", "2", "1", "-", "0", "4", "-", "3", "0">>, description |-> <<"F", "e", "e">>]

EntryBadDate ==
    [date |-> <<"n", "/", "a">>, description |-> <<"F", "e", "e">>, amount |-> [m |-> -105, d |-> 1]]

EntryDebit ==
    [date |-> <<"2", "0", "2", "1", "-", "0", "5", "-", "0", "2">>, description |-> <<"R", "e", "n", "t">>, amount |-> [m |-> -4000, d |-> 0]]

Payloads ==
    { <<>>, <<EntryCredit>>, <<EntryDebit, EntryCredit>>, <<EntryNoAmount, EntryBadDate>>,
      <<EntryCredit, EntryCredit>> }

Responses ==
    { Response("error", 0, "", "", "", <<>>),
      Response("ok", 500, "", "", "", <<>>),
      Response("ok", 200, "not_json", "", "", <<>>),
      Response("ok", 200, "json", "no_candidates", "", <<>>),
      Response("ok", 200, "json", "no_content", "", <<>>),
      Response("ok", 200, "json", "no_parts", "", <<>>),
      Response("ok", 200, "json", "ok", "not_json", <<>>) }
    \cup { Response("ok", 200, "json", "ok", "json", pl) : pl \in Payloads }

\* Statement lines: a date, a description, numeric tokens
Dates ==
    { <<"2", "9", "/", "0", "4", "/", "2", "0", "2", "1">>, <<"1", "/", "1", "/", "2", "0", "2", "1">>, <<"3", "2", "/", "1", "3", "/", "2", "0", "2", "1">>, <<"2", "9", "/", "2", "/", "2", "0", "2", "1">>, <<"2", "9", "/", "0", "2", "/", "2", "0", "2", "0">> }

Descriptions ==
    { <<"F", "e", "e">>, <<"A", "c", "b", " ", "C", "r", "e", "d", "i", "t", " ", "Y", "o", "c", "o">>, <<"I", "b", "a", "n", "k", " ", "P", "a", "y", "m", "e", "n", "t", " ", "T", "o", " ", "S", "e", "t", "t", "l", "e", "m", "e", "n", "t">>, <<"C", "a", "r", "d", " ", "1", "2", " ", "F", "e", "e">> }

Tokens ==
    { <<"1", "5", "0", ".", "0", "0">>, <<"-", "1", "5", "0", ".", "0", "0">>, <<"1", "5", "0", ".", "0", "0", "-">>, <<"2", "5", "0", "0", ".", "0", "0">>, <<"0", ".", "0", "0">>, <<"1", ",", "5", "0", "0", ".", "5", "0">>,
      <<"1", ".", "2", ".", "3">> }

\* A line that always yields a transaction, and the transaction
GoodLine == <<"1", "5", "/", "0", "3", "/", "2", "0", "2", "1", " ", "S", "a", "l", "a", "r", "y", " ", "1", "0", "0", ".", "0", "0">>

HeaderLine == <<"S", "t", "a", "t", "e", "m", "e", "n", "t", " ", "N", "o", " ", "1", "2">>

RECURSIVE Join(_, _)
Join(parts, sep) ==
    IF parts = <<>> THEN <<>>
    ELSE IF Len(parts) = 1 THEN parts[1]
    ELSE parts[1] \o sep \o Join(Tail(parts), sep)

\* ws 1: the parts one blank apart; ws 2: two blanks apart and two at the end
\* ctx 0: the line alone; 1: followed by GoodLine; 2: after a header and GoodLine
LineOf(sh) ==
    LET sep == IF sh.ws = 1 THEN <<" ">> ELSE <<" ", " ">>
    IN  Join(<<sh.date, sh.desc>> \o sh.toks, sep) \o (IF sh.ws = 1 THEN <<>> ELSE sep)

TextOf(sh) ==
    CASE sh.ctx = 0 -> LineOf(sh)
      [] sh.ctx = 1 -> Join(<<LineOf(sh), GoodLine>>, <<"\n">>)
      [] sh.ctx = 2 -> Join(<<HeaderLine, GoodLine, LineOf(sh)>>, <<"\n">>)

\* The characters of the free tails, and the longest free tail
TailChars == {"1", " ", ".", ",", "-", "x"}

MaxTail == 4

\* Lines of a date, a description and numeric tokens; and lines whose text after
\* the description is any text over TailChars
Shapes ==
    [date : Dates, desc : Descriptions, toks : SeqsOf(Tokens, 0, MaxTokens),
     ws : 1..2, ctx : 0..2]
    \cup [date : { <<"1", "/", "1", "/", "2", "0", "2", "1">> }, desc : { <<"a">> },
          toks : { <<t>> : t \in SeqsOf(TailChars, 1, MaxTail) }, ws : {1}, ctx : {0}]

NoShape == [date |-> <<>>, desc |-> <<>>, toks |-> <<>>, ws |-> 1, ctx |-> 0]

(***************************************************************************)
(* State                                                                   *)
(***************************************************************************)
VARIABLES
    uploaded_files,    \* the names of the uploaded files, in the order of the upload
    has_key,           \* whether st.secrets holds the API key
    pc,                \* "ready", "loop" (the conversion runs), "done", "idle"
    idx,               \* the file the loop is at
    full_text,         \* main's full_text: the text of the last file read
    transactions,      \* main's transactions: what the last parser returned
    all_transactions,  \* main's all_transactions
    notices,           \* the st.error, st.warning and final st.success shown
    calls,             \* the requests posted to the endpoint
    output,            \* the CSV offered for download, NoOutput when there is none
    log,               \* per file processed: the path taken and what came of it
    pdf_text,          \* the argument of a call of parse_absa_pdf
    shape,             \* the parts pdf_text was built from
    parsed,            \* what the call returned
    ppc                \* "start", "returned", "raised", "idle"

vars ==
    <<uploaded_files, has_key, pc, idx, full_text, transactions, all_transactions,
      notices, calls, output, log, pdf_text, shape, parsed, ppc>>

mainVars ==
    <<uploaded_files, has_key, pc, idx, full_text, transactions, all_transactions,
      notices, calls, output, log>>

parserVars == <<pdf_text, shape, parsed, ppc>>

Notice(level, doc) == [level |-> level, doc |-> doc]

LogEntry(name, path, failure, records, added, posted) ==
    [name |-> name, path |-> path, failure |-> failure, records |-> records,
     added |-> added, calls |-> posted]

(***************************************************************************)
(* The conversion: main                                                    *)
(***************************************************************************)
Init ==
    /\ uploaded_files \in SeqsOf(FileNames, 0, MaxFiles)
    /\ has_key \in BOOLEAN
    /\ pc = "ready"
    /\ idx = 0
    /\ full_text = <<>>
    /\ transactions = <<>>
    /\ all_transactions = <<>>
    /\ notices = <<>>
    /\ calls = 0
    /\ output = NoOutput
    /\ log = <<>>
    /\ pdf_text = <<>> /\ shape = NoShape /\ parsed = <<>> /\ ppc = "idle"

\* "Convert All to CSV" is pressed (the button shows once files are uploaded)
ClickConvert ==
    /\ pc = "ready"
    /\ uploaded_files # <<>>
    /\ pc' = "loop"
    /\ idx' = 1
    /\ all_transactions' = <<>>
    /\ UNCHANGED <<uploaded_files, has_key, full_text, transactions, notices, calls,
                   output, log, parserVars>>

\* The except clause of the loop: the error is shown, the loop goes on
ExceptInLoop(name, path, failure, posted, text) ==
    /\ notices' = Append(notices, Notice("error", idx))
    /\ idx' = NextAfterError(idx, Len(uploaded_files))
    /\ full_text' = text
    /\ calls' = calls + posted
    /\ log' = Append(log, LogEntry(name, path, failure, <<>>, 0, posted))
    /\ UNCHANGED <<transactions, all_transactions>>

\* The parser returned: its transactions are added to all_transactions
ExtendInLoop(name, path, failure, res, posted, text) ==
    /\ transactions' = res
    /\ all_transactions' = Extend(all_transactions, res)
    /\ notices' = IF failure # "" THEN Append(notices, Notice("error", idx)) ELSE notices
    /\ idx' = idx + 1
    /\ full_text' = text
    /\ calls' = calls + posted
    /\ log' = Append(log, LogEntry(name, path, failure, res,
                                   Len(all_transactions') - Len(all_transactions), posted))

\* One turn of the loop in which the PDF cannot be read: fitz raises
ReadFails ==
    /\ pc = "loop" /\ idx <= Len(uploaded_files)
    /\ ExceptInLoop(uploaded_files[idx], "NONE", "read", 0, full_text)
    /\ UNCHANGED <<uploaded_files, has_key, pc, output, parserVars>>

\* One turn of the loop for a file the rule-based parser is used for
RunGrammar ==
    /\ pc = "loop" /\ idx <= Len(uploaded_files)
    /\ Route(uploaded_files[idx]) = "GRAMMAR"
    /\ \E text \in SampleTexts :
         LET r == parse_absa_pdf(text)
         IN  IF r.raised # ""
             THEN ExceptInLoop(uploaded_files[idx], "GRAMMAR", "parser", 0, text)
             ELSE ExtendInLoop(uploaded_files[idx], "GRAMMAR", "", r.transactions, 0, text)
    /\ UNCHANGED <<uploaded_files, has_key, pc, output, parserVars>>

\* One turn of the loop for a file sent to the endpoint
RunModel ==
    /\ pc = "loop" /\ idx <= Len(uploaded_files)
    /\ Route(uploaded_files[idx]) = "MODEL"
    /\ \E text \in SampleTexts, resp \in Responses :
         LET r == process_with_ai(has_key, resp)
         IN  IF r.raised # ""
             THEN ExceptInLoop(uploaded_files[idx], "MODEL",
                               IF has_key THEN ResponseFailure(resp) ELSE "secrets",
                               r.calls, text)
             ELSE ExtendInLoop(uploaded_files[idx], "MODEL", ResponseFailure(resp),
                               r.transactions, r.calls, text)
    /\ UNCHANGED <<uploaded_files, has_key, pc, output, parserVars>>

\* After the loop: the table and the download, or the warning
EndConversion ==
    /\ pc = "loop" /\ idx > Len(uploaded_files)
    /\ LET f == Finish(all_transactions, notices)
       IN  /\ output' = f.output
           /\ notices' = IF f.notice = "" THEN notices
                         ELSE Append(notices, Notice(f.notice, 0))
    /\ pc' = "done"
    /\ UNCHANGED <<uploaded_files, has_key, idx, full_text, transactions,
                   all_transactions, calls, log, parserVars>>

Next == ClickConvert \/ ReadFails \/ RunGrammar \/ RunModel \/ EndConversion

Spec == Init /\ [][Next]_vars

(***************************************************************************)
(* parse_absa_pdf on its own: one call on the text of a statement          *)
(***************************************************************************)
InitParse ==
    /\ shape \in Shapes
    /\ pdf_text = TextOf(shape)
    /\ parsed = <<>>
    /\ ppc = "start"
    /\ uploaded_files = <<>> /\ has_key = TRUE /\ pc = "idle" /\ idx = 0
    /\ full_text = <<>> /\ transactions = <<>> /\ all_transactions = <<>>
    /\ notices = <<>> /\ calls = 0 /\ output = NoOutput /\ log = <<>>

ParseAbsaPdf ==
    /\ ppc = "start"
    /\ \E r \in {parse_absa_pdf(pdf_text)} :
         /\ parsed' = r.transactions
         /\ ppc' = IF r.raised # "" THEN "raised" ELSE "returned"
    /\ UNCHANGED <<pdf_text, shape, mainVars>>

NextParse == ParseAbsaPdf

SpecParse == InitParse /\ [][NextParse]_vars

(***************************************************************************)
(* Expected values, worked out by hand                                     *)
(***************************************************************************)
\* The parser the name of a file calls for
ExpectedPath(name) ==
    CASE name = <<"a", "b", "s", "a", ".", "p", "d", "f">> -> "GRAMMAR"
      [] name = <<"M", "y", "_", "A", "B", "S", "A", ".", "P", "D", "F">> -> "GRAMMAR"
      [] name = <<"f", "n", "b", ".", "p", "d", "f">> -> "MODEL"
      [] name = <<"a", "b", "s", "_", "a", ".", "p", "d", "f">> -> "MODEL"

\* The day a date token names, as YYYY-MM-DD; <<>> when it names none
ExpectedDate(d) ==
    CASE d = <<"2", "9", "/", "0", "4", "/", "2", "0", "2", "1">> -> <<"2", "0", "2", "1", "-", "0", "4", "-", "2", "9">>
      [] d = <<"1", "/", "1", "/", "2", "0", "2", "1">> -> <<"2", "0", "2", "1", "-", "0", "1", "-", "0", "1">>
      [] d = <<"2", "9", "/", "0", "2", "/", "2", "0", "2", "0">> -> <<"2", "0", "2", "0", "-", "0", "2", "-", "2", "9">>
      [] d = <<"3", "2", "/", "1", "3", "/", "2", "0", "2", "1">> -> <<>>
      [] d = <<"2", "9", "/", "2", "/", "2", "0", "2", "1">> -> <<>>

\* The number a numeric token stands for, its sign left out; none for a token
\* that is no number
ExpectedNumber(t) ==
    CASE t = <<"1", "5", "0", ".", "0", "0">> -> [ok |-> TRUE, val |-> [m |-> 150, d |-> 0]]
      [] t = <<"-", "1", "5", "0", ".", "0", "0">> -> [ok |-> TRUE, val |-> [m |-> 150, d |-> 0]]
      [] t = <<"1", "5", "0", ".", "0", "0", "-">> -> [ok |-> TRUE, val |-> [m |-> 150, d |-> 0]]
      [] t = <<"2", "5", "0", "0", ".", "0", "0">> -> [ok |-> TRUE, val |-> [m |-> 2500, d |-> 0]]
      [] t = <<"0", ".", "0", "0">> -> [ok |-> TRUE, val |-> [m |-> 0, d |-> 0]]
      [] t = <<"1", ",", "5", "0", "0", ".", "5", "0">> -> [ok |-> TRUE, val |-> [m |-> 15005, d |-> 1]]
      [] t = <<"1", ".", "2", ".", "3">> -> [ok |-> FALSE]

GoodRecord ==
    [date |-> <<"2", "0", "2", "1", "-", "0", "3", "-", "1", "5">>, description |-> <<"S", "a", "l", "a", "r", "y">>, amount |-> [m |-> -100, d |-> 0]]

\* Descriptions without a digit
PlainDescriptions == { <<"F", "e", "e">>, <<"A", "c", "b", " ", "C", "r", "e", "d", "i", "t", " ", "Y", "o", "c", "o">>, <<"I", "b", "a", "n", "k", " ", "P", "a", "y", "m", "e", "n", "t", " ", "T", "o", " ", "S", "e", "t", "t", "l", "e", "m", "e", "n", "t">> }

\* The transactions of the line of the shape, those of the lines around it left out
LineRecords ==
    CASE shape.ctx = 0 -> parsed
      [] shape.ctx = 1 -> SubSeq(parsed, 1, Len(parsed) - 1)
      [] shape.ctx = 2 -> SubSeq(parsed, 2, Len(parsed))

\* The line of the shape holds a date, a plain description and n known tokens
IsTokenLine(n) ==
    /\ shape.date \in Dates
    /\ shape.desc \in PlainDescriptions
    /\ Len(shape.toks) = n
    /\ \A k \in 1..n : shape.toks[k] \in Tokens

Negated(a) == [m |-> 0 - a.m, d |-> a.d]

RECURSIVE Flatten(_)
Flatten(lists) == IF lists = <<>> THEN <<>> ELSE Head(lists) \o Flatten(Tail(lists))

RECURSIVE SumOf(_)
SumOf(ns) == IF ns = <<>> THEN 0 ELSE Head(ns) + SumOf(Tail(ns))

CountOf(seq, Test(_)) == Len(SelectSeq(seq, Test))

(***************************************************************************)
(* Properties of parse_absa_pdf, under SpecParse                           *)
(***************************************************************************)
\* C4, as claimed: for a line with one number after the description, the
\* amount of the record is negative and its magnitude is that number.
C4_DebitNegative ==
    (ppc = "returned" /\ IsTokenLine(1)) =>
        \A k \in 1..Len(LineRecords) :
            /\ LineRecords[k].amount.m < 0
            /\ Negated(LineRecords[k].amount) = ExpectedNumber(shape.toks[1]).val

\* C4, amended: for a line with one number after the description, the amount
\* of the record is the negated number (any '-' of the token dropped): below
\* zero for a number that is not zero, zero for the number zero, never above
\* zero.  When the date and the number are well formed the line does yield
\* its record.
C4_DebitNeverPositive ==
    (ppc = "returned" /\ IsTokenLine(1)) =>
        /\ \A k \in 1..Len(LineRecords) :
             /\ LineRecords[k].amount.m <= 0
             /\ Negated(LineRecords[k].amount) = ExpectedNumber(shape.toks[1]).val
             /\ LineRecords[k].description = shape.desc
        /\ (ExpectedDate(shape.date) # <<>> /\ ExpectedNumber(shape.toks[1]).ok)
             => Len(LineRecords) = 1

\* A debit line whose number carries a '-' has yielded its negative amount
C4_Witness ==
    /\ ppc = "returned"
    /\ IsTokenLine(1)
    /\ shape.toks[1] = <<"-", "1", "5", "0", ".", "0", "0">>
    /\ shape.ws = 2
    /\ LineRecords = << [date |-> <<"2", "0", "2", "1", "-", "0", "4", "-", "2", "9">>, description |-> shape.desc,
                         amount |-> [m |-> -150, d |-> 0]] >>

\* C5, as claimed: for a line with a number in the debit position and a
\* well-formed number in the credit position after it, the record's amount is
\* positive and equals the credit number.
C5_CreditPositive ==
    ( /\ ppc = "returned"
      /\ IsTokenLine(2)
      /\ ExpectedDate(shape.date) # <<>>
      /\ ExpectedNumber(shape.toks[2]).ok
      /\ ExpectedNumber(shape.toks[2]).val.m > 0 ) =>
        /\ Len(LineRecords) = 1
        /\ LineRecords[1].amount = ExpectedNumber(shape.toks[2]).val

\* C7: a line with a date token that names a day of the calendar yields a
\* record dated that day, written YYYY-MM-DD; a line whose date token names no
\* day yields no record; the parser never raises, and the other lines of the
\* text yield their records all the same.
C7_DateConversion ==
    /\ ppc # "raised"
    /\ (ppc = "returned" /\ shape.date \in Dates) =>
          /\ ExpectedDate(shape.date) # <<>> =>
                \A k \in 1..Len(LineRecords) :
                    LineRecords[k].date = ExpectedDate(shape.date)
          /\ ExpectedDate(shape.date) = <<>> => LineRecords = <<>>
          /\ (IsTokenLine(1) /\ ExpectedDate(shape.date) # <<>>
                /\ ExpectedNumber(shape.toks[1]).ok) => Len(LineRecords) = 1
          /\ shape.ctx = 1 => (parsed # <<>> /\ parsed[Len(parsed)] = GoodRecord)
          /\ shape.ctx = 2 => (parsed # <<>> /\ parsed[1] = GoodRecord)

\* A line dated 32/13/2021 was dropped and the line after it was parsed
C7_Witness ==
    /\ ppc = "returned"
    /\ shape.date = <<"3", "2", "/", "1", "3", "/", "2", "0", "2", "1">>
    /\ shape.toks = << <<"1", "5", "0", ".", "0", "0">> >>
    /\ shape.ctx = 1
    /\ parsed = <<GoodRecord>>

\* The match of the pattern on a line of the text, as the loop computes it
MatchOfLine(rawline) == Search(pattern, NGroups, Strip(CollapseSpaces(rawline)))

LogFollowsUpload ==
    /\ Len(log) <= Len(uploaded_files)
    /\ \A k \in 1..Len(log) : log[k].name = uploaded_files[k]

\* C1, as claimed: for every file exactly one of the two parsers is invoked,
\* parse_absa_pdf if and only if the lower-cased name contains "absa".
C1_OneParserPerFile ==
    /\ LogFollowsUpload
    /\ \A k \in 1..Len(log) :
         /\ log[k].path \in {"GRAMMAR", "MODEL"}
         /\ log[k].path = ExpectedPath(log[k].name)

\* C1, amended: for every file whose PDF was read without an error exactly
\* one parser is invoked, parse_absa_pdf if and only if the lower-cased name
\* contains "absa", whatever the text of the file; for a file whose PDF cannot
\* be read no parser is invoked.
C1_RouteByName ==
    /\ LogFollowsUpload
    /\ \A k \in 1..Len(log) :
         /\ log[k].failure = "read" => log[k].path = "NONE"
         /\ log[k].failure # "read" => log[k].path = ExpectedPath(log[k].name)

\* A file named in capitals went to parse_absa_pdf, and a file whose text
\* mentions Absa but whose name does not went to process_with_ai
C1_Witness ==
    /\ Len(log) = 2
    /\ log[1].name = <<"M", "y", "_", "A", "B", "S", "A", ".", "P", "D", "F">> /\ log[1].path = "GRAMMAR"
    /\ log[2].name = <<"a", "b", "s", "_", "a", ".", "p", "d", "f">> /\ log[2].path = "MODEL"
    /\ Contains(Lower(full_text), <<"a", "b", "s", "a">>)

FailureKinds ==
    {"read", "secrets", "transport", "http", "malformed_json", "empty_envelope"}

\* C2: a file that fails (the PDF cannot be read, the request fails, the answer
\* is no JSON or holds no candidate) adds no record to all_transactions, and
\* the loop goes on with the next file: at the end every file was processed.
C2_FailureIsolated ==
    /\ LogFollowsUpload
    /\ \A k \in 1..Len(log) :
         /\ log[k].failure \in FailureKinds \cup {""}
         /\ log[k].failure # "" => (log[k].added = 0 /\ log[k].records = <<>>)
    /\ Len(all_transactions) = SumOf([k \in 1..Len(log) |-> log[k].added])
    /\ pc = "loop" => Len(log) = idx - 1
    /\ pc = "done" => Len(log) = Len(uploaded_files)

\* A failed request for the first file, and the records of the second file in
\* all_transactions at the end
C2_Witness ==
    /\ pc = "done"
    /\ Len(log) = 2
    /\ log[1].failure = "transport"
    /\ log[2].failure = "" /\ log[2].added = 2
    /\ Len(all_transactions) = 2

\* C3: all_transactions is the concatenation of the lists the parsers
\* returned, in the order of the files: nothing reordered, merged or dropped.
C3_AggregateIsConcatenation ==
    /\ all_transactions = Flatten([k \in 1..Len(log) |-> log[k].records])
    /\ Len(all_transactions) = SumOf([k \in 1..Len(log) |-> Len(log[k].records)])

\* Two files with the same record: all_transactions holds it twice
C3_Witness ==
    /\ pc = "done"
    /\ Len(log) = 2
    /\ log[1].records = <<EntryDebit, EntryCredit>>
    /\ log[2].records = <<EntryCredit>>
    /\ all_transactions = <<EntryDebit, EntryCredit, EntryCredit>>

\* YYYY-MM-DD, as far as the form goes
IsIsoDateText(t) ==
    /\ Len(t) = 10
    /\ t[5] = "-" /\ t[8] = "-"
    /\ \A k \in {1, 2, 3, 4, 6, 7, 9, 10} : t[k] \in Digit

\* C6, as claimed: every record of all_transactions has a date, a description
\* and an amount, the date a date: entries of an answer without one of the
\* fields or with a date that is none are discarded.
C6_RecordsComplete ==
    \A k \in 1..Len(all_transactions) :
        /\ {"date", "description", "amount"} \subseteq DOMAIN all_transactions[k]
        /\ IsIsoDateText(all_transactions[k].date)

ShownCount(level) == CountOf(notices, LAMBDA n : n.level = level)

C9_OneCallPerModelFile ==
    /\ \A k \in 1..Len(log) :
         /\ log[k].path = "MODEL" => log[k].calls = 1
         /\ log[k].path = "GRAMMAR" => log[k].calls = 0
    /\ calls <= Len(uploaded_files)

\* C9, amended: at most one request for each file sent to process_with_ai:
\* one when st.secrets holds the API key, whether the request fails or not,
\* and none when it does not (the function fails before it posts); none for
\* any other file; never more requests than files.
C9_AtMostOneCall ==
    /\ \A k \in 1..Len(log) :
         /\ log[k].path = "MODEL" => log[k].calls = (IF has_key THEN 1 ELSE 0)
         /\ log[k].path # "MODEL" => log[k].calls = 0
    /\ calls = SumOf([k \in 1..Len(log) |-> log[k].calls])
    /\ calls <= Len(log)
    /\ calls <= Len(uploaded_files)

\* A request that failed was not repeated, and the file parsed by
\* parse_absa_pdf cost none
C9_Witness ==
    /\ pc = "done"
    /\ Len(log) = 2
    /\ log[1].path = "MODEL" /\ log[1].failure = "http"
    /\ log[2].path = "GRAMMAR"
    /\ calls = 1

====
